---------------------------- MODULE Spec2Model ----------------------------
(***************************************************************************)
(* The security service subprocess of tokscope-enclave                     *)
(* (security_service_subprocess.py): the line-oriented IPC loop `run`, the *)
(* router `handle_request`, the parameter assembler                        *)
(* `build_authenticated_params` and `generate_headers`, over opaque        *)
(* signing backends (XGorgon, XArgus, XLadon) that may raise.              *)
(*                                                                         *)
(* Representation.  A Python str is a sequence of tokens: text whose        *)
(* characters matter (cookies, parameter values, whatever gets quoted or   *)
(* joined) is split into characters; a literal or name that is only        *)
(* compared or copied whole ("Unknown action: ", "getApiConfig") is one    *)
(* token.  A dict whose                                                    *)
(* iteration order the code depends on (baseParams, the header mapping) is *)
(* an association list, a sequence of <<key, value>> pairs with distinct   *)
(* keys in insertion order; a dict that is only probed with `in` and []    *)
(* (sessionData, tokens, a request, a response) is a TLA+ record whose     *)
(* DOMAIN is the set of keys present.  An exception is a result record     *)
(* with raised = TRUE carrying str(e).                                     *)
(***************************************************************************)
EXTENDS Integers, Sequences, FiniteSets, TLC

VARIABLES
    pc,           \* position of run: "start", "read", "handle", "done"
    inp,          \* the lines sys.stdin.readline() has returned so far
    out,          \* the lines printed to sys.stdout, oldest first
    line,         \* the local `line` of run: what the last readline() returned
    handled,      \* per printed line: the index in inp of the line being handled,
                  \* the signing backends invoked for it and the path taken
    log,          \* the records written to sys.stderr by logger
    base_in,      \* the baseParams mapping of the assembler call under study
    session_in,   \* its sessionData
    phase,        \* assembler study: "idle", "called", "recalled"
    env,          \* what time.time(), secrets.token_hex and the backends gave that call
    result,       \* outcome of build_authenticated_params(base_in, session_in)
    alt_session,  \* sessionData of the second call (tokens.device_id varied)
    alt_result,   \* outcome of the second call under the same env
    rest,         \* REST wrapper study: the POST /generate-headers call and its answer
    compose       \* compose-hash study: the configurations given and what was computed

vars == <<pc, line, inp, out, handled, log, base_in, session_in, phase, env,
          result, alt_session, alt_result, rest, compose>>

ipcVars == <<pc, line, inp, out, handled, log>>
bapVars == <<base_in, session_in, phase, env, result, alt_session, alt_result>>
studyVars == <<rest, compose>>

\* The two side studies are not running
StudiesOff == rest = <<>> /\ compose = <<>>

-----------------------------------------------------------------------------
(* Bounds *)

\* Lines the input stream delivers before it closes.
MaxLines == 2

-----------------------------------------------------------------------------
(* Strings *)

\* The element of a one-element set.  { F(x) : x \in {e} } binds a local x to
\* the value of e, computed once, as an assignment of the source does.
The(S) == CHOOSE x \in S : TRUE

\* sep.join(parts)
Join(sep, parts) ==
    LET joined[i \in 0..Len(parts)] ==
            IF i = 0 THEN <<>>
            ELSE IF i = 1 THEN parts[1]
            ELSE joined[i - 1] \o sep \o parts[i]
    IN  joined[Len(parts)]

\* urllib.parse.quote_plus on one character: unreserved characters stay,
\* a space becomes "+", anything else is percent-encoded.
QuoteChar(c) ==
    CASE c = " " -> <<"+">>
      [] c = "&" -> <<"%", "2", "6">>
      [] c = "=" -> <<"%", "3", "D">>
      [] c = ";" -> <<"%", "3", "B">>
      [] OTHER   -> <<c>>

\* urllib.parse.quote_plus(s)
quote_plus(s) ==
    LET quoted[i \in 0..Len(s)] ==
            IF i = 0 THEN <<>> ELSE quoted[i - 1] \o QuoteChar(s[i])
    IN  quoted[Len(s)]

-----------------------------------------------------------------------------
(* Dicts in insertion order *)

Keys(d) == {d[i][1] : i \in 1..Len(d)}

KeySeq(d) == [i \in 1..Len(d) |-> d[i][1]]

\* d[k], for k in d
DictGet(d, k) == d[CHOOSE i \in 1..Len(d) : d[i][1] = k][2]

\* d[k] = v: an existing key keeps its position, a new key goes last.
DictSet(d, k, v) ==
    IF k \in Keys(d)
    THEN [i \in 1..Len(d) |-> IF d[i][1] = k THEN <<k, v>> ELSE d[i]]
    ELSE Append(d, <<k, v>>)

\* A merge the wrong way round, {**other, **d}: a key d already has keeps d's value
DictUpdateKeep(d, other) ==
    d \o SelectSeq(other, LAMBDA p : ~(p[1] \in Keys(d)))

\* d.update(other): a key of d takes other's value where it stands, the new
\* keys follow in other's order
DictUpdate(d, other) ==
    [i \in 1..Len(d) |->
        IF d[i][1] \in Keys(other) THEN <<d[i][1], DictGet(other, d[i][1])>> ELSE d[i]]
    \o SelectSeq(other, LAMBDA p : ~(p[1] \in Keys(d)))

\* urllib.parse.urlencode(d): quote_plus(k)=quote_plus(str(v)) joined by "&",
\* in the dict's order.  Keys are the fixed names below, all of unreserved
\* characters, so a key is one token that quoting leaves as it is.
urlencode(d) ==
    The({ Join(<<"&">>, pairs)
          : pairs \in {[i \in 1..Len(d) |-> <<d[i][1]>> \o <<"=">> \o quote_plus(d[i][2])]} })

-----------------------------------------------------------------------------
(* Results of calls that may raise *)

\* raised: whether the call raised; value: what it returned; msg: str(e);
\* log: what it logged; calls: the signing backends it invoked, in order.
Returned(v, lg) ==
    [raised |-> FALSE, value |-> v, msg |-> <<>>, log |-> lg, calls |-> <<>>]

Raised(m, lg) ==
    [raised |-> TRUE, value |-> <<>>, msg |-> m, log |-> lg, calls |-> <<>>]

WithCalls(r, calls) == [r EXCEPT !.calls = calls]

\* A logging setup left at print's stream
LogStreamStdout == "stdout"

\* lines 24-30: logging.basicConfig(stream=sys.stderr, ...)
LogStream == "stderr"

\* logger.error(prefix + str(e)) on sys.stderr
LogError(prefix, m) == <<"[Python] ERROR: ", prefix>> \o m

\* logger.info(text) on sys.stderr
LogInfo(text) == <<"[Python] INFO: ", text>>

-----------------------------------------------------------------------------
(* The signing backends: opaque, deterministic in their arguments, and each *)
(* call either returns or raises.  A returned value is the term of its      *)
(* arguments, the most discriminating deterministic function of them.       *)

\* What one request's backend calls do: gorgon returns a mapping with both
\* keys ("full"), a mapping without them ("bare"), or raises; argus and
\* ladon return ("ok") or raise.
Outcomes ==
    [gorgon : {"full", "bare", "raise"}, argus : {"ok", "raise"}, ladon : {"ok", "raise"}]

AllOk == [gorgon |-> "full", argus |-> "ok", ladon |-> "ok"]

\* str(e) of what each backend raises
Cause(backend) == <<backend, " ", "e", "r", "r", "o", "r">>

TimeStr(timestamp) == <<ToString(timestamp)>>

\* self.gorgon.get_value(params=, data=None, stub=, headers_dict=, timestamp=)
GorgonValue(params, stub, headers_dict, timestamp) ==
    <<"gorgon(">> \o params \o <<"|">> \o headers_dict \o <<"|">> \o stub
        \o <<"|">> \o TimeStr(timestamp) \o <<")">>

\* the X-Khronos entry of the same gorgon result
KhronosValue(params, stub, headers_dict, timestamp) ==
    <<"khronos(">> \o params \o <<"|">> \o headers_dict \o <<"|">> \o stub
        \o <<"|">> \o TimeStr(timestamp) \o <<")">>

\* self.argus.get_value(params=, cookies=, timestamp=)
ArgusValue(params, cookies, timestamp) ==
    <<"argus(">> \o params \o <<"|">> \o cookies \o <<"|">> \o TimeStr(timestamp) \o <<")">>

\* self.ladon.get_value(params)
LadonValue(params) == <<"ladon(">> \o params \o <<")">>

HeaderNames == {"X-Gorgon", "X-Khronos", "X-Argus", "X-Ladon"}

-----------------------------------------------------------------------------
(* generate_headers *)

generate_headers(params, cookies, stub, timestamp, oc) ==
    LET headers_dict == IF cookies # <<>> THEN <<"cookie:">> \o cookies ELSE <<>>
        failed(m, calls) ==
            WithCalls(Raised(m, <<LogError("Header generation failed: ", m)>>), calls)
    IN  IF oc.gorgon = "raise" THEN failed(Cause("gorgon"), <<"gorgon">>)
        ELSE IF oc.argus = "raise" THEN failed(Cause("argus"), <<"gorgon", "argus">>)
        ELSE IF oc.ladon = "raise"
        THEN failed(Cause("ladon"), <<"gorgon", "argus", "ladon">>)
        ELSE WithCalls(
               Returned(
                 << <<"X-Gorgon",
                      IF oc.gorgon = "full"
                      THEN GorgonValue(params, stub, headers_dict, timestamp)
                      ELSE <<>> >>,
                    <<"X-Khronos",
                      IF oc.gorgon = "full"
                      THEN KhronosValue(params, stub, headers_dict, timestamp)
                      ELSE TimeStr(timestamp) >>,
                    <<"X-Argus", ArgusValue(params, cookies, timestamp)>>,
                    <<"X-Ladon", LadonValue(params)>> >>,
                 <<>>),
               <<"gorgon", "argus", "ladon">>)

-----------------------------------------------------------------------------
(* build_authenticated_params *)

\* An injection that files the device identifier under both keys
InjectDeviceTwice(base_params, session_data) ==
    LET tokens == session_data.tokens
    IN  IF "tokens" \in DOMAIN session_data /\ "device_id" \in DOMAIN tokens
        THEN The({ DictSet(p1, "iid", tokens.device_id)
                   : p1 \in {DictSet(base_params, "device_id", tokens.device_id)} })
        ELSE IF "tokens" \in DOMAIN session_data /\ "install_id" \in DOMAIN tokens
        THEN DictSet(base_params, "iid", tokens.install_id)
        ELSE base_params

\* An injection that yields to the caller: params.setdefault(key, token)
InjectDeviceDefault(base_params, session_data) ==
    LET tokens == session_data.tokens
    IN  The({ IF "tokens" \in DOMAIN session_data /\ "install_id" \in DOMAIN tokens
                 /\ ~("iid" \in Keys(p1))
              THEN DictSet(p1, "iid", tokens.install_id) ELSE p1
              : p1 \in { IF "tokens" \in DOMAIN session_data /\ "device_id" \in DOMAIN tokens
                            /\ ~("device_id" \in Keys(base_params))
                         THEN DictSet(base_params, "device_id", tokens.device_id)
                         ELSE base_params } })

\* An assembler that serializes first and injects the identifiers afterwards
InjectDeviceSkipped(base_params, session_data) == base_params

\* lines 82-90: the copy of base_params with the session's device identifiers
InjectDevice(base_params, session_data) ==
    LET tokens == session_data.tokens
    IN  The({ IF "tokens" \in DOMAIN session_data /\ "install_id" \in DOMAIN tokens
              THEN DictSet(p1, "iid", tokens.install_id) ELSE p1
              : p1 \in { IF "tokens" \in DOMAIN session_data /\ "device_id" \in DOMAIN tokens
                         THEN DictSet(base_params, "device_id", tokens.device_id)
                         ELSE base_params } })

\* A separator without its space: ';'.join(...)
CookieSepBare == <<";">>

\* line 99: the separator of '; '.join
CookieSep == <<";", " ">>

\* f"{c['name']}={c['value']}"
CookiePair(c) == c.name \o <<"=">> \o c.value

\* lines 96-101: the cookie string of the session; a list element without
\* 'name' or 'value' raises KeyError, whose str is the quoted key.
SessionCookies(session_data) ==
    IF ~("cookies" \in DOMAIN session_data) THEN Returned(<<>>, <<>>)
    ELSE LET c == session_data.cookies
             truthy == \/ c.t = "list" /\ c.items # <<>>
                       \/ c.t = "str" /\ c.text # <<>>
                       \/ c.t = "other"
         IN  IF ~truthy THEN Returned(<<>>, <<>>)
             ELSE IF c.t = "list"
             THEN IF \E i \in 1..Len(c.items) : ~("name" \in DOMAIN c.items[i])
                  THEN Raised(<<"'name'">>, <<>>)
                  ELSE IF \E i \in 1..Len(c.items) : ~("value" \in DOMAIN c.items[i])
                  THEN Raised(<<"'value'">>, <<>>)
                  ELSE Returned(Join(CookieSep,
                                     [i \in 1..Len(c.items) |-> CookiePair(c.items[i])]),
                                <<>>)
             ELSE IF c.t = "str" THEN Returned(c.text, <<>>)
             ELSE Returned(<<>>, <<>>)

\* The record build_authenticated_params leaves behind: its result, and the
\* arguments it gave generate_headers (called = FALSE when it never got there).
Built(r, called, params_string, cookies) ==
    [raised |-> r.raised, value |-> r.value, msg |-> r.msg, log |-> r.log,
     calls |-> r.calls, called |-> called, params_string |-> params_string, cookies |-> cookies]

\* timestamp and stub are what int(time.time()) and secrets.token_hex(16)
\* returned inside this call, oc what the backends did.
build_authenticated_params(base_params, session_data, timestamp, stub, oc) ==
    LET failed(m, lg) ==
            Raised(m, lg \o <<LogError("buildAuthenticatedParams failed: ", m)>>)
        signed(params, params_string, ck) ==
            IF ck.raised THEN Built(failed(ck.msg, <<>>), FALSE, params_string, <<>>)
            ELSE The({ IF headers.raised
                       THEN Built(WithCalls(failed(headers.msg, headers.log), headers.calls),
                                  TRUE, params_string, ck.value)
                       ELSE Built(WithCalls(Returned(DictUpdate(params, headers.value), <<>>),
                                            headers.calls),
                                  TRUE, params_string, ck.value)
                       : headers \in {generate_headers(params_string, ck.value, stub,
                                                       timestamp, oc)} })
    IN  The({ The({ signed(params, params_string, ck)
                    : params_string \in {urlencode(params)},
                      ck \in {SessionCookies(session_data)} })
              : params \in {InjectDevice(base_params, session_data)} })

-----------------------------------------------------------------------------
(* Inputs of the assembler study *)

\* int(time.time())
Times == {1700000000}

\* secrets.token_hex(16), abbreviated to two of its hex digits
Stubs == {<<"a", "1">>, <<"b", "2">>}

DeviceIds == {<<"d", "1">>, <<"d", "2">>}

InstallIds == {<<"i", "1">>}

BaseParamsSet ==
    { <<>>,
      << <<"aid", <<"1">>>> >>,
      << <<"aid", <<"1">>>>, <<"device_id", <<"d", "0">>>> >>,
      << <<"iid", <<"i", "0">>>>, <<"device_id", <<"d", "1">>>>, <<"q", <<"a", " ", "b">>>> >>,
      << <<"X-Gorgon", <<"g">>>>, <<"aid", <<"1", "&", "2">>>> >>,
      << <<"X-Argus", <<"a">>>>, <<"X-Khronos", <<"k">>>>, <<"X-Ladon", <<"l">>>> >> }

\* sessionData.tokens: a mapping with any of device_id, install_id
TokensSet ==
    { <<>> }
    \cup { [device_id |-> d] : d \in DeviceIds }
    \cup { [install_id |-> i] : i \in InstallIds }
    \cup { [device_id |-> d, install_id |-> i] : d \in DeviceIds, i \in InstallIds }

CookieA == [name |-> <<"a">>, value |-> <<"1">>]
CookieB == [name |-> <<"b">>, value |-> <<"2">>]

ListOf(items) == [t |-> "list", items |-> items, text |-> <<>>]

StrOf(text) == [t |-> "str", items |-> <<>>, text |-> text]

\* sessionData.cookies by Python type: a list of pairs (items), a str (text),
\* or a value of another type (a number)
CookiesSet ==
    { ListOf(<<>>),
      ListOf(<<CookieA>>),
      ListOf(<<CookieA, CookieB>>),
      ListOf(<<CookieB, CookieA>>),
      ListOf(<<CookieA, [name |-> <<"b">>]>>),
      ListOf(<<[value |-> <<"1">>]>>),
      StrOf(<<>>),
      StrOf(<<"a", "=", "1", ";", " ", "b", "=", "2">>),
      [t |-> "other", items |-> <<>>, text |-> <<"5">>] }

SessionSet ==
    { <<>> }
    \cup { [tokens |-> tk] : tk \in TokensSet }
    \cup { [cookies |-> ck] : ck \in CookiesSet }
    \cup { [tokens |-> tk, cookies |-> ck] : tk \in TokensSet, ck \in CookiesSet }

\* tokens with device_id set to d
WithDevice(tokens, d) ==
    [k \in DOMAIN tokens \cup {"device_id"} |-> IF k = "device_id" THEN d ELSE tokens[k]]

\* tokens without device_id
WithoutDevice(tokens) == [k \in DOMAIN tokens \ {"device_id"} |-> tokens[k]]

\* session_data with its tokens replaced
WithTokens(session_data, tokens) ==
    [k \in DOMAIN session_data |-> IF k = "tokens" THEN tokens ELSE session_data[k]]

\* The sessions equal to session_data except for tokens.device_id
DeviceVariants(session_data) ==
    { WithTokens(session_data, WithDevice(session_data.tokens, d)) : d \in DeviceIds }
    \cup { WithTokens(session_data, WithoutDevice(session_data.tokens)) }

-----------------------------------------------------------------------------
(* The assembler study: one call, then a second one with only                *)
(* sessionData.tokens.device_id varied and the same clock, stub and backends *)

\* `line` before the first read
NoLine == [shape |-> "none", fields |-> <<>>]

NoCall == Built(Returned(<<>>, <<>>), FALSE, <<>>, <<>>)

NoEnv == [timestamp |-> 0, stub |-> <<>>, oc |-> AllOk]

IpcOff ==
    /\ pc = "off"
    /\ line = NoLine
    /\ inp = <<>>
    /\ out = <<>>
    /\ handled = <<>>
    /\ log = <<>>

InitBAP ==
    /\ IpcOff
    /\ StudiesOff
    /\ base_in \in BaseParamsSet
    /\ session_in \in SessionSet
    /\ phase = "idle"
    /\ env = NoEnv
    /\ result = NoCall
    /\ alt_session = <<>>
    /\ alt_result = NoCall

\* An assembler that works on the caller's mapping: params = base_params
ParamsObjectAlias == "base"

\* line 82: the object the name params is bound to, a new dict
ParamsObject == "copy"

\* The caller's baseParams object after the call: lines 88, 90 and 107 write
\* to the object params names, and nothing else is written.  When the call
\* raised, it did so after the injection and before the merge.
BaseAfter(base_params, session_data, built) ==
    IF ParamsObject = "copy" THEN base_params
    ELSE IF built.raised THEN InjectDevice(base_params, session_data)
    ELSE built.value

Call ==
    /\ phase = "idle"
    /\ \E timestamp \in Times, stub \in Stubs, oc \in Outcomes :
          \E built \in {build_authenticated_params(base_in, session_in, timestamp,
                                                   stub, oc)} :
             /\ env' = [timestamp |-> timestamp, stub |-> stub, oc |-> oc]
             /\ result' = built
             /\ base_in' = BaseAfter(base_in, session_in, built)
    /\ phase' = "called"
    /\ UNCHANGED <<session_in, alt_session, alt_result>>
    /\ UNCHANGED ipcVars
    /\ UNCHANGED studyVars

Recall ==
    /\ phase = "called"
    /\ "tokens" \in DOMAIN session_in
    /\ \E alt \in DeviceVariants(session_in) :
          /\ alt # session_in
          /\ alt_session' = alt
          /\ \E built \in {build_authenticated_params(base_in, alt, env.timestamp,
                                                      env.stub, env.oc)} :
                /\ alt_result' = built
                /\ base_in' = BaseAfter(base_in, alt, built)
    /\ phase' = "recalled"
    /\ UNCHANGED <<session_in, env, result>>
    /\ UNCHANGED ipcVars
    /\ UNCHANGED studyVars

NextBAP == Call \/ Recall

SpecBAP == InitBAP /\ [][NextBAP]_vars

-----------------------------------------------------------------------------
(* JSON scalars: the text on the wire and the Python value                   *)

PyStr(s) == [t |-> "str", s |-> s]

PyInt(n) == [t |-> "int", n |-> n]

PyNone == [t |-> "none"]

\* str(v), as an f-string renders it
PyToStr(v) ==
    CASE v.t = "str"  -> v.s
      [] v.t = "int"  -> <<ToString(v.n)>>
      [] v.t = "none" -> <<"None">>

\* The number a numeral of the wire denotes
NumeralValue(w) == CHOOSE n \in 0..9 : <<ToString(n)>> = w

\* json.loads of a scalar: "..." is a str, null is None, a numeral is an int
json_loads_scalar(w) ==
    IF Head(w) = "\"" THEN PyStr(SubSeq(w, 2, Len(w) - 1))
    ELSE IF w = <<"null">> THEN PyNone
    ELSE PyInt(NumeralValue(w))

\* json.dumps of a scalar
json_dumps_scalar(v) ==
    CASE v.t = "str"  -> <<"\"">> \o v.s \o <<"\"">>
      [] v.t = "int"  -> <<ToString(v.n)>>
      [] v.t = "none" -> <<"null">>

\* The wire text of a JSON string and of a one-digit JSON number
WireStr(s) == <<"\"">> \o s \o <<"\"">>

WireNum(n) == <<ToString(n)>>

-----------------------------------------------------------------------------
(* Lines of the input stream                                                 *)
(* shape "garbage": text that is no JSON; "blank": only the newline;         *)
(* "array": valid JSON that is no object; "object": a JSON object, fields    *)
(* holding its members, the scalar ones as wire text and baseParams and      *)
(* sessionData as the mappings json.loads makes of them.                     *)

ScalarMembers ==
    {"action", "requestId", "secUserId", "params", "cookies", "stub", "timestamp"}

Obj(fields) == [shape |-> "object", fields |-> fields]

\* What readline() returns at end of stream: ''
EofLine == [shape |-> "eof", fields |-> <<>>]

SessionFull ==
    [tokens |-> [device_id |-> <<"d", "1">>, install_id |-> <<"i", "1">>],
     cookies |-> ListOf(<<CookieA, CookieB>>)]

SessionBadCookie == [cookies |-> ListOf(<<[value |-> <<"1">>]>>)]

Lines ==
    { [shape |-> "garbage", fields |-> <<>>],
      [shape |-> "blank", fields |-> <<>>],
      [shape |-> "array", fields |-> <<>>],
      Obj([action |-> WireStr(<<"getApiConfig">>), requestId |-> WireNum(7)]),
      Obj([action |-> WireStr(<<"getApiConfig">>)]),
      Obj([action |-> WireStr(<<"generateDeviceAuth">>), requestId |-> WireNum(8),
           secUserId |-> WireStr(<<"u", "1">>)]),
      Obj([action |-> WireStr(<<"bogus">>), requestId |-> WireNum(7)]),
      Obj([requestId |-> WireStr(<<"r", "1">>)]),
      Obj([action |-> WireStr(<<"buildAuthenticatedParams">>),
           requestId |-> WireStr(<<"r", "2">>),
           baseParams |-> << <<"X-Gorgon", <<"g">>>>, <<"aid", <<"1">>>> >>,
           sessionData |-> SessionFull]),
      Obj([action |-> WireStr(<<"buildAuthenticatedParams">>), requestId |-> WireNum(9),
           baseParams |-> << <<"aid", <<"1">>>> >>,
           sessionData |-> SessionBadCookie]),
      Obj([action |-> WireStr(<<"generateHeaders">>), requestId |-> WireStr(<<"r", "3">>),
           params |-> WireStr(<<"a", "=", "1">>), cookies |-> WireStr(<<"c", "=", "1">>),
           stub |-> WireStr(<<"c", "3">>), timestamp |-> WireNum(5)]),
      Obj([action |-> WireStr(<<"generateHeaders">>), requestId |-> WireNum(7)]) }

\* json.loads(line.strip()): JSONDecodeError on text that is no JSON (an empty
\* string included), otherwise the Python value, a dict only for an object.
json_loads(ln) ==
    CASE ln.shape \in {"garbage", "blank"} ->
           Raised(<<"Expecting value: line 1 column 1 (char 0)">>, <<>>)
      [] ln.shape = "array" ->
           Returned([isdict |-> FALSE, typename |-> "list", d |-> <<>>], <<>>)
      [] ln.shape = "object" ->
           Returned([isdict |-> TRUE, typename |-> "dict",
                     d |-> [k \in DOMAIN ln.fields |->
                              IF k \in ScalarMembers
                              THEN json_loads_scalar(ln.fields[k])
                              ELSE ln.fields[k]]],
                    <<>>)

\* json.dumps(response): each scalar member as wire text
json_dumps(response) ==
    [k \in DOMAIN response |->
        IF k = "requestId" THEN json_dumps_scalar(response[k])
        ELSE IF k = "error" THEN json_dumps_scalar(PyStr(response[k]))
        ELSE response[k]]

-----------------------------------------------------------------------------
(* handle_request *)

\* d.get(k, default)
Get(d, k, default) == IF k \in DOMAIN d THEN d[k] ELSE default

ApiConfig ==
    [baseUrl |-> <<"https://api16-normal-c-useast1a.tiktokv.com">>,
     userAgent |-> <<"okhttp/3.12.13">>,
     endpoints |-> [feed |-> <<"/aweme/v1/feed/">>, recommended |-> <<"/aweme/v1/feed/">>]]

KnownActions ==
    {<<"getApiConfig">>, <<"generateDeviceAuth">>, <<"buildAuthenticatedParams">>,
     <<"generateHeaders">>}

\* A router that coerces the identifier to text: 'requestId': str(request_id)
EchoRequestIdAsStr(request_id) == PyStr(PyToStr(request_id))

\* The requestId member handle_request puts in its responses
EchoRequestId(request_id) == request_id

\* A router that draws a fresh stub whatever the request holds
StubFresh(d, token) == token

\* line 160: request.get('stub', secrets.token_hex(16))
StubOf(d, token) == Get(d, "stub", PyStr(token)).s

\* request is what json.loads returned; clock and token are int(time.time())
\* and secrets.token_hex(16) as drawn while handling it, oc what the backends
\* do.  request.get on a value that is no dict raises AttributeError.
handle_request(request, clock, token, oc) ==
    IF ~request.isdict
    THEN Raised(<<"'", request.typename, "' object has no attribute 'get'">>, <<>>)
    ELSE
    LET d == request.d
        routed(action, request_id) ==
            IF action = PyStr(<<"getApiConfig">>)
            THEN Returned([success |-> TRUE, requestId |-> EchoRequestId(request_id),
                           config |-> ApiConfig], <<>>)
            ELSE IF action = PyStr(<<"generateDeviceAuth">>)
            THEN Returned([success |-> TRUE, requestId |-> EchoRequestId(request_id),
                           deviceAuth |->
                               [sec_user_id |-> Get(d, "secUserId", PyStr(<<>>))]],
                          <<>>)
            ELSE IF action = PyStr(<<"buildAuthenticatedParams">>)
            THEN The({ IF built.raised
                       THEN WithCalls(Raised(built.msg, built.log), built.calls)
                       ELSE WithCalls(
                              Returned([success |-> TRUE,
                                        requestId |-> EchoRequestId(request_id),
                                        params |-> built.value], built.log),
                              built.calls)
                       : built \in {build_authenticated_params(
                                       Get(d, "baseParams", <<>>),
                                       Get(d, "sessionData", <<>>),
                                       clock, token, oc)} })
            ELSE IF action = PyStr(<<"generateHeaders">>)
            THEN The({ IF headers.raised THEN headers
                       ELSE WithCalls(
                              Returned([success |-> TRUE,
                                        requestId |-> EchoRequestId(request_id),
                                        headers |-> headers.value], headers.log),
                              headers.calls)
                       : headers \in {generate_headers(
                                         Get(d, "params", PyStr(<<>>)).s,
                                         Get(d, "cookies", PyStr(<<>>)).s,
                                         StubOf(d, token),
                                         Get(d, "timestamp", PyInt(clock)).n,
                                         oc)} })
            ELSE Returned([success |-> FALSE, requestId |-> EchoRequestId(request_id),
                           error |-> <<"Unknown action: ">> \o PyToStr(action)], <<>>)
    IN  The({ routed(action, request_id)
              : action \in {Get(d, "action", PyNone)},
                request_id \in {Get(d, "requestId", PyNone)} })

-----------------------------------------------------------------------------
(* run: one iteration of the loop after a line was read *)

\* What an iteration does: the lines it prints on stdout, the records it logs
\* on stderr, the backends it invoked, the path it took and where the loop
\* goes next.
Effect(stdout, stderr, calls, path, next) ==
    [stdout |-> stdout, stderr |-> stderr, calls |-> calls, path |-> path, pc |-> next]

\* lines 190-196: print(json.dumps(response), flush=True)
PrintResponse(r) ==
    Effect(<<json_dumps(r.value)>>, r.log, r.calls, "ok", "read")

\* A decode handler that gives up: the response is printed and the loop left
DecodeHandlerFatal(r) ==
    Effect(<<json_dumps([success |-> FALSE, error |-> <<"Invalid JSON: ">> \o r.msg])>>,
           r.log, r.calls, "decode", "done")

\* A decode handler that only skips the line: except json.JSONDecodeError: continue
DecodeHandlerSkip(r) == Effect(<<>>, r.log, r.calls, "decode", "read")

\* A decode handler whose response says only that it failed
DecodeHandlerBare(r) ==
    Effect(<<json_dumps([success |-> FALSE])>>, r.log, r.calls, "decode", "read")

\* lines 198-203: except json.JSONDecodeError
DecodeHandler(r) ==
    Effect(<<json_dumps([success |-> FALSE, error |-> <<"Invalid JSON: ">> \o r.msg])>>,
           r.log, r.calls, "decode", "read")

\* A handler that logs the failure and prints no response
ExceptHandlerSilent(r) ==
    Effect(<<>>, r.log \o <<LogError("Request handling error: ", r.msg)>>,
           r.calls, "except", "read")

\* A handler that hides the cause from the caller
ExceptHandlerGeneric(r) ==
    Effect(<<json_dumps([success |-> FALSE, error |-> <<"Internal error">>])>>,
           r.log \o <<LogError("Request handling error: ", r.msg)>>,
           r.calls, "except", "read")

\* A handler that masks the failure as the REST wrapper does: placeholder
\* headers under a success
ExceptHandlerMasked(r) ==
    Effect(<<json_dumps([success |-> TRUE,
                         headers |-> << <<"X-Gorgon", <<"0404000000000000000000000000000000000000">>>>,
                                        <<"X-Argus", <<"placeholder_argus_value">>>>,
                                        <<"X-Ladon", <<"placeholder_ladon_value">>>> >>])>>,
           r.log \o <<LogError("Request handling error: ", r.msg)>>,
           r.calls, "except", "read")

\* lines 205-211: except Exception
ExceptHandler(r) ==
    Effect(<<json_dumps([success |-> FALSE, error |-> r.msg])>>,
           r.log \o <<LogError("Request handling error: ", r.msg)>>,
           r.calls, "except", "read")

Iteration(ln, clock, token, oc) ==
    LET handled_as(request) ==
            The({ IF response.raised THEN ExceptHandler(response)
                  ELSE PrintResponse(response)
                  : response \in {handle_request(request, clock, token, oc)} })
    IN  The({ IF loaded.raised THEN DecodeHandler(loaded) ELSE handled_as(loaded.value)
              : loaded \in {json_loads(ln)} })

-----------------------------------------------------------------------------
(* The IPC loop *)

BapOff ==
    /\ base_in = <<>>
    /\ session_in = <<>>
    /\ phase = "off"
    /\ env = NoEnv
    /\ result = NoCall
    /\ alt_session = <<>>
    /\ alt_result = NoCall

\* After SecurityServiceSubprocess(): the constructor has logged once.
Init ==
    /\ pc = "start"
    /\ line = NoLine
    /\ inp = <<>>
    /\ out = <<>>
    /\ handled = <<>>
    /\ log = <<LogInfo("Security modules initialized")>>
    /\ BapOff
    /\ StudiesOff

\* line 180
Start ==
    /\ pc = "start"
    /\ \E started \in {LogInfo("Security service subprocess started, waiting for requests...")} :
          /\ log' = (IF LogStream = "stderr" THEN Append(log, started) ELSE log)
          /\ out' = (IF LogStream = "stdout" THEN Append(out, started) ELSE out)
    /\ pc' = "read"
    /\ UNCHANGED <<line, inp, handled>>
    /\ UNCHANGED bapVars
    /\ UNCHANGED studyVars

\* line 185, a line arrives
ReadLine ==
    /\ pc = "read"
    /\ Len(inp) < MaxLines
    /\ \E ln \in Lines :
          /\ line' = ln
          /\ inp' = Append(inp, ln)
    /\ pc' = "handle"
    /\ UNCHANGED <<out, handled, log>>
    /\ UNCHANGED bapVars
    /\ UNCHANGED studyVars

\* A loop without its break: the empty read is dropped and the loop reads again
ReadEofIgnored ==
    /\ pc = "read"
    /\ line' = EofLine
    /\ pc' = "read"
    /\ UNCHANGED <<inp, out, handled, log>>
    /\ UNCHANGED bapVars
    /\ UNCHANGED studyVars

\* lines 185-187, the stream is closed: readline() returns '' and the loop breaks
ReadEof ==
    /\ pc = "read"
    /\ line' = EofLine
    /\ pc' = "done"
    /\ UNCHANGED <<inp, out, handled, log>>
    /\ UNCHANGED bapVars
    /\ UNCHANGED studyVars

\* The effect of an iteration on the streams and on the loop
Emit(e) ==
    /\ out' = out \o (IF LogStream = "stdout" THEN e.stderr ELSE <<>>) \o e.stdout
    /\ handled' = handled \o
          [i \in 1..Len(e.stdout) |->
              [for |-> Len(inp), calls |-> e.calls, path |-> e.path]]
    /\ log' = log \o (IF LogStream = "stderr" THEN e.stderr ELSE <<>>)
    /\ pc' = e.pc

\* lines 190 and 198-203: the line is no JSON
ParseFail ==
    /\ pc = "handle"
    /\ json_loads(line).raised
    /\ \E clock \in Times, token \in Stubs, oc \in Outcomes :
          \E e \in {Iteration(line, clock, token, oc)} :
             /\ e.path = "decode"
             /\ Emit(e)
    /\ UNCHANGED <<line, inp>>
    /\ UNCHANGED bapVars
    /\ UNCHANGED studyVars

\* lines 190-196: the request is handled and its response printed
HandleOk ==
    /\ pc = "handle"
    /\ ~json_loads(line).raised
    /\ \E clock \in Times, token \in Stubs, oc \in Outcomes :
          \E e \in {Iteration(line, clock, token, oc)} :
             /\ e.path = "ok"
             /\ Emit(e)
    /\ UNCHANGED <<line, inp>>
    /\ UNCHANGED bapVars
    /\ UNCHANGED studyVars

\* lines 190-193 and 205-211: handling the request raised
HandleRaise ==
    /\ pc = "handle"
    /\ ~json_loads(line).raised
    /\ \E clock \in Times, token \in Stubs, oc \in Outcomes :
          \E e \in {Iteration(line, clock, token, oc)} :
             /\ e.path = "except"
             /\ Emit(e)
    /\ UNCHANGED <<line, inp>>
    /\ UNCHANGED bapVars
    /\ UNCHANGED studyVars

Body == ParseFail \/ HandleOk \/ HandleRaise

Next == Start \/ ReadLine \/ ReadEof \/ ParseFail \/ HandleOk \/ HandleRaise

Spec == Init /\ [][Next]_vars

\* The process keeps running: once a line is read, the iteration completes.
SpecFair == Spec /\ WF_vars(Start) /\ WF_vars(Body)

\* A read of the stream: a line, or the end
Read == ReadLine \/ ReadEof

\* The input stream is finite: it holds at most MaxLines lines and is then
\* closed, so every readline() returns.
SpecFinite == Spec /\ WF_vars(Start) /\ WF_vars(Body) /\ WF_vars(Read)

-----------------------------------------------------------------------------
(* Vocabulary of the properties of the loop *)

\* The line is text that json.loads rejects
Unparsable(ln) == ln.shape \in {"garbage", "blank"}

\* The line is no well-formed structured request: no JSON, or JSON that is no object
Malformed(ln) == ln.shape \in {"garbage", "blank", "array"}

HasMember(ln, k) == ln.shape = "object" /\ k \in DOMAIN ln.fields

\* The line is an object whose action is the string a
HasAction(ln, a) == HasMember(ln, "action") /\ ln.fields.action = WireStr(<<a>>)

\* The line is an object whose action is none of the four
UnknownActionLine(ln) ==
    /\ ln.shape = "object"
    /\ \A a \in KnownActions : ~HasAction(ln, a[1])

\* The requestId of an object line as the wire shows Python's request.get('requestId')
WireRequestId(ln) ==
    IF HasMember(ln, "requestId") THEN ln.fields.requestId ELSE <<"null">>

\* The result member a successful response to the action carries
ResultKey(a) ==
    CASE a = "getApiConfig"             -> "config"
      [] a = "generateDeviceAuth"       -> "deviceAuth"
      [] a = "buildAuthenticatedParams" -> "params"
      [] a = "generateHeaders"          -> "headers"

\* resp is a response to ln, by what it carries
Answers(ln, resp) ==
    /\ "success" \in DOMAIN resp
    /\ Unparsable(ln) =>
          /\ ~resp.success
          /\ "error" \in DOMAIN resp
          /\ resp.error[2] = "Invalid JSON: "
    /\ ~Unparsable(ln) /\ "error" \in DOMAIN resp => resp.error[2] # "Invalid JSON: "
    /\ resp.success =>
          \E a \in KnownActions : HasAction(ln, a[1]) /\ ResultKey(a[1]) \in DOMAIN resp
    /\ "requestId" \in DOMAIN resp =>
          ln.shape = "object" /\ resp.requestId = WireRequestId(ln)

Range(f) == {f[i] : i \in DOMAIN f}

-----------------------------------------------------------------------------
(* C1.  Every line read, well-formed or not, gets exactly one response line, *)
(* the k-th response answers the k-th line, and a line's response is written *)
(* before the next line is read: outside an iteration as many responses as   *)
(* lines, inside one exactly one line unanswered.                            *)
C1_OneResponsePerLine ==
    /\ Len(handled) = Len(out)
    /\ Len(out) = (IF pc = "handle" THEN Len(inp) - 1 ELSE Len(inp))
    /\ \A k \in 1..Len(out) : handled[k].for = k /\ Answers(inp[k], out[k])

\* A malformed line and a request whose handling raised, both answered in turn
C1_Witness ==
    /\ pc = "read"
    /\ Len(inp) = 2
    /\ Len(out) = 2
    /\ Unparsable(inp[1])
    /\ handled[2].path = "except"

(* C2.  The loop never stops because of a request-level error: whenever run  *)
(* has stopped the last read returned end-of-stream, and every iteration,    *)
(* whatever the line was and whatever was raised, ends ready to read again.  *)
C2_StopsOnlyAtEof ==
    /\ [](pc = "done" => line = EofLine)
    /\ [][pc = "handle" => pc' = "read"]_vars

\* run has stopped after a malformed line and a failed backend call
C2_Witness ==
    /\ pc = "done"
    /\ Len(inp) = 2
    /\ Malformed(inp[1])
    /\ handled[2].path = "except"
    /\ handled[2].calls # <<>>

(* C3.  For every parsed request that carries a requestId, whatever its      *)
(* action and whether it succeeds or fails, the response carries the same    *)
(* requestId, type and value unchanged.                                      *)
C3_RequestIdEchoed ==
    \A k \in 1..Len(out) :
        HasMember(inp[k], "requestId") =>
            /\ "requestId" \in DOMAIN out[k]
            /\ out[k].requestId = inp[k].fields.requestId

(* C4.  When handling a parsed request raises, the response is               *)
(* {success: false, requestId: the request's requestId, error: the message}. *)
C4_RaiseKeepsRequestId ==
    \A k \in 1..Len(out) :
        inp[k].shape = "object" /\ handled[k].path = "except" =>
            /\ DOMAIN out[k] = {"success", "requestId", "error"}
            /\ ~out[k].success
            /\ out[k].requestId = WireRequestId(inp[k])

(* C5.  A line that is no well-formed structured request (no JSON, or JSON *)
(* that is no object) is answered with success false, an error string and   *)
(* no requestId; and a getApiConfig line read after it is eventually        *)
(* answered with a second response, whose success is true.                  *)
C5_MalformedThenConfig ==
    /\ [](\A k \in 1..Len(out) :
            Malformed(inp[k]) =>
                /\ ~out[k].success
                /\ "error" \in DOMAIN out[k]
                /\ ~("requestId" \in DOMAIN out[k]))
    /\ \A k \in 1..MaxLines :
          (Len(inp) = k /\ pc = "handle" /\ Malformed(inp[k]))
             ~> (Len(out) >= k /\ ~out[k].success)
    /\ \A k \in 1..(MaxLines - 1) :
          (Len(inp) = k + 1 /\ Malformed(inp[k]) /\ HasAction(inp[k + 1], "getApiConfig"))
             ~> (Len(out) >= k + 1 /\ out[k + 1].success /\ "config" \in DOMAIN out[k + 1])

\* One bad line, then one good getApiConfig line: two responses, the second successful
C5_Witness ==
    /\ Len(out) = 2
    /\ Malformed(inp[1])
    /\ HasAction(inp[2], "getApiConfig")
    /\ ~out[1].success
    /\ ~("requestId" \in DOMAIN out[1])
    /\ out[2].success

\* str(action) of an object line: the action string, or None when it is missing
ActionText(ln) ==
    IF HasMember(ln, "action")
    THEN SubSeq(ln.fields.action, 2, Len(ln.fields.action) - 1)
    ELSE <<"None">>

(* C6.  A parsed request whose action is none of getApiConfig,               *)
(* generateDeviceAuth, buildAuthenticatedParams, generateHeaders (a missing  *)
(* action included) is answered with exactly {success: false, requestId: the *)
(* request's requestId, error: "Unknown action: <name>"}; handling it does   *)
(* not raise and invokes no signing backend.                                 *)
C6_UnknownAction ==
    \A k \in 1..Len(out) :
        UnknownActionLine(inp[k]) =>
            /\ out[k] = [success |-> FALSE,
                         requestId |-> WireRequestId(inp[k]),
                         error |-> WireStr(<<"Unknown action: ">> \o ActionText(inp[k]))]
            /\ handled[k].path = "ok"
            /\ handled[k].calls = <<>>

\* {"action": "bogus", "requestId": 7} answered
C6_Witness ==
    \E k \in 1..Len(out) :
        /\ HasAction(inp[k], "bogus")
        /\ out[k] = [success |-> FALSE, requestId |-> <<"7">>,
                     error |-> <<"\"", "Unknown action: ", "bogus", "\"">>]

\* A signing backend call failed while line k, a buildAuthenticatedParams request, was handled
BackendFailedInBuild(k) ==
    /\ HasAction(inp[k], "buildAuthenticatedParams")
    /\ handled[k].path = "except"
    /\ handled[k].calls # <<>>

\* str(e) of that failure: what the last backend invoked raised
FailureCause(k) == Cause(handled[k].calls[Len(handled[k].calls)])

(* C7 as claimed.  When a signing backend call fails during a                *)
(* buildAuthenticatedParams request, the error string of the response is     *)
(* "buildAuthenticatedParams failed: " followed by the backend's cause.      *)
C7_NamedErrorInResponse ==
    \A k \in 1..Len(out) :
        BackendFailedInBuild(k) =>
            out[k].error = WireStr(<<"buildAuthenticatedParams failed: ">> \o FailureCause(k))

(* C7 as amended.  When a signing backend call fails during a                *)
(* buildAuthenticatedParams request, the response has success false, its     *)
(* error string is the backend's cause alone, it carries no params (no       *)
(* placeholder header value is substituted), and the named message           *)
(* "buildAuthenticatedParams failed: <cause>" is written to the log.         *)
C7_CauseInResponseNameInLog ==
    \A k \in 1..Len(out) :
        BackendFailedInBuild(k) =>
            /\ ~out[k].success
            /\ out[k].error = WireStr(FailureCause(k))
            /\ ~("params" \in DOMAIN out[k])
            /\ LogError("buildAuthenticatedParams failed: ", FailureCause(k)) \in Range(log)

\* The ladon backend failed last, after gorgon and argus returned
C7_Witness ==
    \E k \in 1..Len(out) :
        /\ BackendFailedInBuild(k)
        /\ handled[k].calls = <<"gorgon", "argus", "ladon">>
        /\ out[k].error = <<"\"">> \o Cause("ladon") \o <<"\"">>

-----------------------------------------------------------------------------
(* Vocabulary of the properties of the assembler *)

\* The first call returned a mapping
Assembled == phase # "idle" /\ phase # "off" /\ ~result.raised

SessionHas(session_data, token) ==
    "tokens" \in DOMAIN session_data /\ token \in DOMAIN session_data.tokens

\* The header mapping the backends computed for the first call
ComputedHeaders ==
    generate_headers(result.params_string, result.cookies, env.stub, env.timestamp,
                     env.oc).value

\* The keys on which two mappings differ: present in one only, or with other values
DiffKeys(a, b) ==
    {k \in Keys(a) \cup Keys(b) :
        \/ ~(k \in Keys(a))
        \/ ~(k \in Keys(b))
        \/ DictGet(a, k) # DictGet(b, k)}

(* C8.  In the mapping build_authenticated_params returns, every key of     *)
(* the computed header mapping that also occurs in baseParams holds the      *)
(* computed header value, not the base value; every other base key keeps     *)
(* its base value, unless it is device_id or iid and the session injects it. *)
C8_HeadersOverrideBase ==
    Assembled =>
        \A k \in Keys(base_in) :
            /\ k \in Keys(result.value)
            /\ DictGet(result.value, k) =
                  (IF k \in HeaderNames THEN DictGet(ComputedHeaders, k)
                   ELSE IF k = "device_id" /\ SessionHas(session_in, "device_id")
                   THEN session_in.tokens.device_id
                   ELSE IF k = "iid" /\ SessionHas(session_in, "install_id")
                   THEN session_in.tokens.install_id
                   ELSE DictGet(base_in, k))

\* baseParams had its own X-Gorgon, and the returned mapping holds the computed one
C8_Witness ==
    /\ Assembled
    /\ "X-Gorgon" \in Keys(base_in)
    /\ DictGet(result.value, "X-Gorgon") # DictGet(base_in, "X-Gorgon")
    /\ DictGet(result.value, "X-Gorgon") = DictGet(ComputedHeaders, "X-Gorgon")
    /\ DictGet(result.value, "aid") = DictGet(base_in, "aid")

\* Both calls returned, and both sessions carry a device_id, two different ones
TwoDevices ==
    /\ phase = "recalled"
    /\ ~result.raised
    /\ ~alt_result.raised
    /\ SessionHas(session_in, "device_id")
    /\ SessionHas(alt_session, "device_id")
    /\ session_in.tokens.device_id # alt_session.tokens.device_id

(* C9 as claimed.  Two calls with the same baseParams, the same sessionData  *)
(* except for tokens.device_id, and the same stub, timestamp and backends    *)
(* return mappings that differ in exactly the device_id key.                 *)
C9_OnlyDeviceIdDiffers ==
    TwoDevices => DiffKeys(result.value, alt_result.value) = {"device_id"}

(* C9 as amended.  Two such calls return mappings that differ in the         *)
(* device_id key and agree on every key other than device_id and the         *)
(* computed header keys X-Gorgon, X-Khronos, X-Argus, X-Ladon (which are     *)
(* computed from a query string that contains device_id).                    *)
C9_DeviceIdAndHeadersDiffer ==
    /\ TwoDevices => "device_id" \in DiffKeys(result.value, alt_result.value)
    /\ phase = "recalled" /\ ~result.raised /\ ~alt_result.raised =>
          DiffKeys(result.value, alt_result.value) \subseteq {"device_id"} \cup HeaderNames

\* Two device ids gave two X-Gorgon values, while iid is the same in both
C9_Witness ==
    /\ TwoDevices
    /\ DictGet(result.value, "X-Gorgon") # DictGet(alt_result.value, "X-Gorgon")
    /\ "iid" \in Keys(result.value)
    /\ DictGet(result.value, "iid") = DictGet(alt_result.value, "iid")

\* The pairs of a cookie list as text: each pair after the first follows "; "
Rendered(items) ==
    LET text[i \in 0..Len(items)] ==
            IF i = 0 THEN <<>>
            ELSE text[i - 1] \o (IF i > 1 THEN <<";", " ">> ELSE <<>>)
                    \o items[i].name \o <<"=">> \o items[i].value
    IN  text[Len(items)]

(* C10.  The cookie string build_authenticated_params passes to the signing *)
(* backend is: for sessionData.cookies a list of {name, value} pairs, the    *)
(* pairs as name=value joined with "; " in list order; for a string, that    *)
(* string unchanged; for an absent or empty cookies field, the empty string. *)
C10_CookieString ==
    phase # "idle" /\ phase # "off" /\ result.called =>
        IF ~("cookies" \in DOMAIN session_in) THEN result.cookies = <<>>
        ELSE LET c == session_in.cookies
             IN  /\ c.t = "list" => result.cookies = Rendered(c.items)
                 /\ c.t = "str" => result.cookies = c.text
                 /\ c = ListOf(<<CookieA, CookieB>>) =>
                       result.cookies = <<"a", "=", "1", ";", " ", "b", "=", "2">>

\* [{a, 1}, {b, 2}] reached the backend as "a=1; b=2"
C10_Witness ==
    /\ phase = "called"
    /\ result.called
    /\ "cookies" \in DOMAIN session_in
    /\ session_in.cookies = ListOf(<<CookieA, CookieB>>)
    /\ result.cookies = <<"a", "=", "1", ";", " ", "b", "=", "2">>
    /\ ArgusValue(result.params_string, result.cookies, env.timestamp)
          \in {result.value[i][2] : i \in 1..Len(result.value)}

-----------------------------------------------------------------------------
(* C11.  If the input stream is finite, run eventually terminates: the      *)
(* end-of-stream read makes the loop exit, after every line read has been   *)
(* answered, and that read writes no response and logs no error.            *)
C11_TerminatesAtEof ==
    /\ <>(pc = "done")
    /\ [](pc = "done" => line = EofLine /\ Len(out) = Len(inp))
    /\ [][pc' = "done" => pc = "read" /\ out' = out /\ log' = log]_vars

\* run has returned after two lines, both answered, the second one a request served
C11_Witness ==
    /\ pc = "done"
    /\ line = EofLine
    /\ Len(inp) = 2
    /\ Len(out) = 2
    /\ handled[2].path = "ok"
    /\ out[2].success

-----------------------------------------------------------------------------
(* The REST wrapper: POST /generate-headers of main.py *)

\* What one call's generators do.  init: the three constructors return or one
\* raises; gorgon: calculate returns a dict with both keys ("full"), a dict
\* without them ("bare"), a value that is no dict ("text"), or raises; argus
\* and ladon: a value, an empty value, or raise.
RestOutcomes ==
    [init : {"ok", "raise"}, gorgon : {"full", "bare", "text", "raise"},
     argus : {"ok", "empty", "raise"}, ladon : {"ok", "empty", "raise"}]

GorgonSentinel == <<"0404000000000000000000000000000000000000">>

ArgusSentinel == <<"placeholder_argus_value">>

LadonSentinel == <<"placeholder_ladon_value">>

\* The result of one signing computation: raised, or the value returned
Computed(raised, value) == [raised |-> raised, value |-> value]

\* request.stub or "" and request.cookies: None and '' are both falsy
OrEmpty(v) == IF v.t = "str" THEN v.s ELSE <<>>

\* line 86: request.timestamp or int(time.time())
RestTimestamp(request, clock) ==
    IF request.timestamp.t = "int" /\ request.timestamp.n # 0
    THEN request.timestamp.n ELSE clock

\* lines 98-102: the headers dict handed to XGorgon, as text
RestHeadersDict(request) ==
    (IF request.cookies # <<>> THEN <<"cookie:">> \o request.cookies ELSE <<>>)
    \o (IF OrEmpty(request.stub) # <<>>
        THEN <<"x-ss-stub:">> \o OrEmpty(request.stub) ELSE <<>>)

\* lines 104-107: gorgon_gen.calculate(params=, headers=)
RestGorgon(request, oc) ==
    Computed(oc.gorgon = "raise",
             IF oc.gorgon = "raise" THEN <<>>
             ELSE <<"gorgon(">> \o request.params \o <<"|">> \o RestHeadersDict(request)
                    \o <<")">>)

\* the X-Khronos entry of the same result
RestKhronos(request, oc) ==
    <<"khronos(">> \o request.params \o <<"|">> \o RestHeadersDict(request) \o <<")">>

\* lines 125-129: argus_gen.get_sign(params=, stub=, timestamp=)
RestArgus(request, timestamp, oc) ==
    Computed(oc.argus = "raise",
             IF oc.argus = "ok"
             THEN <<"argus(">> \o request.params \o <<"|">> \o OrEmpty(request.stub)
                    \o <<"|">> \o TimeStr(timestamp) \o <<")">>
             ELSE <<>>)

\* line 138: ladon_gen.encrypt(timestamp)
RestLadon(timestamp, oc) ==
    Computed(oc.ladon = "raise",
             IF oc.ladon = "ok" THEN <<"ladon(">> \o TimeStr(timestamp) \o <<")">>
             ELSE <<>>)

\* A computation left unguarded: whatever it gave is the header
FallbackNone(r, sentinel) == r.value

\* lines 130-134 and 139-143: the sentinel replaces a computation that raised
\* and a value that is empty
Fallback(r, sentinel) == IF r.raised \/ r.value = <<>> THEN sentinel ELSE r.value

\* lines 110-121: X-Gorgon of the response
RestXGorgon(request, oc) ==
    CASE oc.gorgon = "full"  -> RestGorgon(request, oc).value
      [] oc.gorgon = "text"  -> RestGorgon(request, oc).value
      [] oc.gorgon = "bare"  -> GorgonSentinel
      [] oc.gorgon = "raise" -> GorgonSentinel

\* lines 110-121: X-Khronos of the response
RestXKhronos(request, timestamp, oc) ==
    IF oc.gorgon = "full" THEN RestKhronos(request, oc) ELSE TimeStr(timestamp)

\* The answer of the endpoint: HTTP status, and the body's members
RestResponse(status, success, headers, timestamp, detail) ==
    [status |-> status, success |-> success, headers |-> headers,
     timestamp |-> timestamp, detail |-> detail]

NoHeaders == [k \in HeaderNames |-> <<>>]

\* lines 80-162
rest_generate_headers(request, clock, oc) ==
    LET timestamp == RestTimestamp(request, clock)
    IN  IF oc.init = "raise"
        THEN RestResponse(500, FALSE, NoHeaders, 0, <<"init error">>)
        ELSE RestResponse(200, TRUE,
               [k \in HeaderNames |->
                  CASE k = "X-Gorgon"  -> RestXGorgon(request, oc)
                    [] k = "X-Khronos" -> RestXKhronos(request, timestamp, oc)
                    [] k = "X-Argus"   ->
                         Fallback(RestArgus(request, timestamp, oc), ArgusSentinel)
                    [] k = "X-Ladon"   -> Fallback(RestLadon(timestamp, oc), LadonSentinel)],
               timestamp, <<>>)

\* HeaderRequest: params, cookies, optional stub, optional timestamp
RestRequests ==
    [params : {<<"a", "=", "1">>, <<>>},
     cookies : {<<>>, <<"c", "=", "1">>},
     stub : {PyNone, PyStr(<<>>), PyStr(<<"c", "3">>)},
     timestamp : {PyNone, PyInt(0), PyInt(5)}]

NoRestResponse == RestResponse(0, FALSE, NoHeaders, 0, <<>>)

InitREST ==
    /\ IpcOff
    /\ BapOff
    /\ compose = <<>>
    /\ \E request \in RestRequests :
          rest = [phase |-> "idle", request |-> request, clock |-> 0,
                  oc |-> CHOOSE oc \in RestOutcomes : TRUE, response |-> NoRestResponse]

\* One POST /generate-headers
Post ==
    /\ rest.phase = "idle"
    /\ \E clock \in Times, oc \in RestOutcomes :
          rest' = [rest EXCEPT !.phase = "done", !.clock = clock, !.oc = oc,
                               !.response = rest_generate_headers(rest.request, clock, oc)]
    /\ UNCHANGED <<compose>>
    /\ UNCHANGED ipcVars
    /\ UNCHANGED bapVars

NextREST == Post

SpecREST == InitREST /\ [][NextREST]_vars

\* The call returned, its generators constructed
Posted == rest.phase = "done" /\ rest.oc.init = "ok"

\* The timestamp the call used
PostedTime == RestTimestamp(rest.request, rest.clock)

-----------------------------------------------------------------------------
\* The members that carry an action's result
ResultKeys == {"config", "deviceAuth", "params", "headers"}

(* C13.  Every response the loop writes has a boolean success and carries   *)
(* either the result member of its action or an error string, never both    *)
(* and never neither: success is true exactly when the response has the     *)
(* result member of its request's action and no error, and false exactly    *)
(* when it has an error string and no result member.                        *)
C13_ResultOrError ==
    \A k \in 1..Len(out) :
        /\ "success" \in DOMAIN out[k]
        /\ out[k].success \in BOOLEAN
        /\ ("error" \in DOMAIN out[k]) # (DOMAIN out[k] \cap ResultKeys # {})
        /\ out[k].success <=>
              /\ ~("error" \in DOMAIN out[k])
              /\ \E a \in KnownActions :
                    /\ HasAction(inp[k], a[1])
                    /\ DOMAIN out[k] \cap ResultKeys = {ResultKey(a[1])}
        /\ ~out[k].success <=>
              /\ "error" \in DOMAIN out[k]
              /\ Head(out[k].error) = "\""
              /\ DOMAIN out[k] \cap ResultKeys = {}

\* A served request and a refused one, answered side by side
C13_Witness ==
    /\ Len(out) = 2
    /\ out[1].success
    /\ "headers" \in DOMAIN out[1]
    /\ ~out[2].success
    /\ "error" \in DOMAIN out[2]
    /\ inp[2].shape = "object"

-----------------------------------------------------------------------------
\* The positions of a query string where a key stands: the first token and
\* each token after a "&"
KeyPositions(q) == {i \in 1..Len(q) : i = 1 \/ q[i - 1] = "&"}

\* The keys of a query string
QueryKeys(q) == {q[i] : i \in KeyPositions(q)}

\* The query string q holds the pair k=v, v as quoted text
HasPair(q, k, v) ==
    \E i \in KeyPositions(q) :
        /\ q[i] = k
        /\ Len(q) >= i + 1 + Len(v)
        /\ SubSeq(q, i, i + 1 + Len(v)) = <<k, "=">> \o v
        /\ (Len(q) = i + 1 + Len(v) \/ q[i + 2 + Len(v)] = "&")

\* The returned mapping as it stood before the header merge: the computed
\* header keys taken out, those baseParams had put back with their base values
BeforeMerge(value, base) ==
    LET kept == SelectSeq(value, LAMBDA p : ~(p[1] \in HeaderNames) \/ p[1] \in Keys(base))
    IN  [i \in 1..Len(kept) |->
            IF kept[i][1] \in HeaderNames
            THEN <<kept[i][1], DictGet(base, kept[i][1])>> ELSE kept[i]]

(* C14.  The query string build_authenticated_params gives the signing      *)
(* backend is the serialization of the parameter set after the device       *)
(* identifiers are injected and before the headers are merged: it holds     *)
(* device_id and iid whenever the session supplies them, and it holds a     *)
(* computed header key only if baseParams already had it.                   *)
C14_QueryStringBeforeMerge ==
    phase # "idle" /\ phase # "off" /\ result.called =>
        /\ SessionHas(session_in, "device_id") =>
              HasPair(result.params_string, "device_id",
                      quote_plus(session_in.tokens.device_id))
        /\ SessionHas(session_in, "install_id") =>
              HasPair(result.params_string, "iid", quote_plus(session_in.tokens.install_id))
        /\ QueryKeys(result.params_string) \cap HeaderNames = Keys(base_in) \cap HeaderNames
        /\ ~result.raised =>
              result.params_string = urlencode(BeforeMerge(result.value, base_in))

\* A base mapping with its own X-Gorgon and a session with both identifiers:
\* the backend was given the base X-Gorgon, the identifiers and no other header
C14_Witness ==
    /\ phase = "called"
    /\ result.called
    /\ ~result.raised
    /\ result.params_string =
          <<"X-Gorgon", "=", "g", "&", "aid", "=", "1", "%", "2", "6", "2", "&",
            "device_id", "=", "d", "1", "&", "iid", "=", "i", "1">>
    /\ Keys(result.value) \cap HeaderNames = HeaderNames

-----------------------------------------------------------------------------
(* C15.  build_authenticated_params leaves the caller's baseParams and      *)
(* sessionData mappings as they were, whether it returns or raises: the     *)
(* injected identifiers and the merged headers exist only in what it        *)
(* returns.                                                                 *)
C15_InputsUnchanged ==
    [][base_in' = base_in /\ session_in' = session_in]_vars

\* A call that replaced the caller's device_id and added X-Gorgon in its copy,
\* while the caller's mapping still holds the old device_id and no header
C15_Witness ==
    /\ phase = "called"
    /\ ~result.raised
    /\ "device_id" \in Keys(base_in)
    /\ SessionHas(session_in, "device_id")
    /\ DictGet(result.value, "device_id") = session_in.tokens.device_id
    /\ DictGet(base_in, "device_id") # session_in.tokens.device_id
    /\ "X-Gorgon" \in Keys(result.value)
    /\ Keys(base_in) \cap HeaderNames = {}

-----------------------------------------------------------------------------
\* A signing backend call raised while line k, a request for headers, was handled
BackendFailedFor(k) ==
    /\ HasAction(inp[k], "generateHeaders") \/ HasAction(inp[k], "buildAuthenticatedParams")
    /\ handled[k].path = "except"
    /\ handled[k].calls # <<>>

\* The placeholder values of the REST wrapper, as wire text and as values
Placeholders ==
    {s : s \in {GorgonSentinel, ArgusSentinel, LadonSentinel}}
    \cup {WireStr(s) : s \in {GorgonSentinel, ArgusSentinel, LadonSentinel}}

(* C16.  In the IPC loop header computation is all-or-nothing: if any one   *)
(* of the three signing backend calls raises during a generateHeaders or    *)
(* buildAuthenticatedParams request, the response has success false, no     *)
(* headers and no params member and no placeholder value, even when the     *)
(* backend calls made before it succeeded.                                  *)
C16_AllOrNothing ==
    \A k \in 1..Len(out) :
        BackendFailedFor(k) =>
            /\ ~out[k].success
            /\ DOMAIN out[k] \cap {"headers", "params"} = {}
            /\ DOMAIN out[k] \subseteq {"success", "requestId", "error"}
            /\ \A f \in DOMAIN out[k] \ {"success"} : ~(out[k][f] \in Placeholders)

\* generateHeaders: gorgon and argus returned, ladon raised, and the response
\* is the bare failure
C16_Witness ==
    \E k \in 1..Len(out) :
        /\ HasAction(inp[k], "generateHeaders")
        /\ handled[k].calls = <<"gorgon", "argus", "ladon">>
        /\ handled[k].path = "except"
        /\ ~out[k].success
        /\ out[k].error = WireStr(Cause("ladon"))
        /\ ~("headers" \in DOMAIN out[k])

-----------------------------------------------------------------------------
\* The requests answered so far whose handling raised
Excepted == {k \in 1..Len(handled) : handled[k].path = "except"}

(* C17.  Every line the subprocess writes to stdout is exactly one response *)
(* object answering one input line; what is logged while starting up,       *)
(* handling requests or handling failures goes only to stderr.              *)
C17_StdoutOnlyResponses ==
    /\ Len(out) = Len(handled)
    /\ Len(out) <= Len(inp)
    /\ \A k \in 1..Len(out) :
          /\ handled[k].for = k
          /\ "success" \in DOMAIN out[k]
          /\ Answers(inp[k], out[k])
    /\ \A i \in 1..Len(log) : log[i][1] \in {"[Python] INFO: ", "[Python] ERROR: "}
    /\ pc # "start" => Len(log) >= 2 + Cardinality(Excepted)

\* After a request during which a backend raised: stdout holds the one
\* response, stderr the two start-up records and the two error records
C17_Witness ==
    /\ pc = "read"
    /\ Len(inp) = 1
    /\ Len(out) = 1
    /\ handled[1].path = "except"
    /\ handled[1].calls # <<>>
    /\ Len(log) = 4
    /\ log[3][1] = "[Python] ERROR: "
    /\ log[4][1] = "[Python] ERROR: "

-----------------------------------------------------------------------------
\* The text of a string member of an object line, or the default when the
\* line has no such member
TextMember(ln, k, default) ==
    IF HasMember(ln, k) THEN SubSeq(ln.fields[k], 2, Len(ln.fields[k]) - 1) ELSE default

\* The number of a one-digit numeric member of an object line, or the default
NumberMember(ln, k, default) ==
    IF HasMember(ln, k) THEN CHOOSE n \in 0..9 : ln.fields[k] = <<ToString(n)>> ELSE default

(* C18.  For a generateHeaders request the stub and the timestamp of the    *)
(* request are the ones given to the signing backend; a stub that is not    *)
(* supplied is a fresh random token and a timestamp that is not supplied   *)
(* is the current time; params and cookies are passed on as they are, and   *)
(* the header mapping the backend returns is the headers member of the      *)
(* response.                                                                *)
C18_GenerateHeadersArguments ==
    \A k \in 1..Len(out) :
        HasAction(inp[k], "generateHeaders") /\ handled[k].path = "ok" =>
            /\ out[k].success
            /\ "headers" \in DOMAIN out[k]
            /\ \E clock \in Times, token \in Stubs, oc \in Outcomes :
                  \E h \in {generate_headers(TextMember(inp[k], "params", <<>>),
                                             TextMember(inp[k], "cookies", <<>>),
                                             TextMember(inp[k], "stub", token),
                                             NumberMember(inp[k], "timestamp", clock),
                                             oc)} :
                     ~h.raised /\ out[k].headers = h.value

\* One request with its own stub and timestamp, one with neither: the first
\* is signed with "c3" at 5, the second with a drawn token at the clock's time
C18_Witness ==
    /\ Len(out) = 2
    /\ HasMember(inp[1], "stub")
    /\ HasAction(inp[2], "generateHeaders")
    /\ ~HasMember(inp[2], "stub")
    /\ out[1].success
    /\ out[2].success
    /\ DictGet(out[1].headers, "X-Gorgon") =
          GorgonValue(<<"a", "=", "1">>, <<"c", "3">>, <<"cookie:", "c", "=", "1">>, 5)
    /\ DictGet(out[2].headers, "X-Gorgon") \in
          {GorgonValue(<<>>, token, <<>>, clock) : token \in Stubs, clock \in Times}

-----------------------------------------------------------------------------
\* What the returned mapping must hold under key k, the session supplying
\* the token named t or not
Injected(k, t) ==
    IF SessionHas(session_in, t)
    THEN k \in Keys(result.value) /\ DictGet(result.value, k) = session_in.tokens[t]
    ELSE IF k \in Keys(base_in)
    THEN k \in Keys(result.value) /\ DictGet(result.value, k) = DictGet(base_in, k)
    ELSE ~(k \in Keys(result.value))

(* C19.  Session identifiers take precedence over the caller's parameters:  *)
(* when sessionData.tokens has device_id the output's device_id is the      *)
(* session's even if baseParams had another, and when it has install_id the *)
(* output's iid is the session's even if baseParams had iid; each injection *)
(* is made whether or not the other is, and when a token is absent the base *)
(* key, if any, is kept as supplied.                                        *)
C19_SessionIdentifiersWin ==
    Assembled => Injected("device_id", "device_id") /\ Injected("iid", "install_id")

\* baseParams had iid and device_id of its own; the session's install_id
\* replaced the one and, the session having no device_id, the other was kept
C19_Witness ==
    /\ Assembled
    /\ "iid" \in Keys(base_in)
    /\ "device_id" \in Keys(base_in)
    /\ SessionHas(session_in, "install_id")
    /\ ~SessionHas(session_in, "device_id")
    /\ DictGet(base_in, "iid") # session_in.tokens.install_id
    /\ DictGet(result.value, "iid") = session_in.tokens.install_id
    /\ DictGet(result.value, "device_id") = DictGet(base_in, "device_id")

-----------------------------------------------------------------------------
(* The compose hash: get_compose_hash.py                                    *)
(* A Python value is a record: t its type, items the entries of a dict (in  *)
(* insertion order, each a key and a value) or the elements of a list, s    *)
(* the characters of a str, n the number of an int.                         *)

CDict(items) == [t |-> "dict", items |-> items, s |-> <<>>, n |-> 0]

CList(items) == [t |-> "list", items |-> items, s |-> <<>>, n |-> 0]

CStr(s) == [t |-> "str", items |-> <<>>, s |-> s, n |-> 0]

CInt(n) == [t |-> "int", items |-> <<>>, s |-> <<>>, n |-> n]

\* float('nan')
CNaN == [t |-> "nan", items |-> <<>>, s |-> <<>>, n |-> 0]

CNone == [t |-> "none", items |-> <<>>, s |-> <<>>, n |-> 0]

Entry(key, value) == [key |-> key, value |-> value]

\* The characters keys are written with, in code point order
Alphabet == <<"_", "a", "b", "k">>

CharRank(c) == CHOOSE i \in 1..Len(Alphabet) : Alphabet[i] = c

\* a < b for two str, as Python compares them
StrLess(a, b) ==
    \E i \in 1..(Len(b)) :
        /\ i <= Len(a) + 1
        /\ \A j \in 1..(i - 1) : a[j] = b[j]
        /\ i = Len(a) + 1 \/ CharRank(a[i]) < CharRank(b[i])

\* sorted(obj.items()): the entries by ascending key
SortedItems(items) ==
    [p \in 1..Len(items) |->
        items[CHOOSE i \in 1..Len(items) :
                Cardinality({j \in 1..Len(items) : StrLess(items[j].key, items[i].key)})
                    = p - 1]]

RECURSIVE sort_object_lists_as_they_are(_)
\* A sort that leaves what is inside a list as it is
sort_object_lists_as_they_are(obj) ==
    IF obj.t = "dict"
    THEN [obj EXCEPT !.items =
            [i \in 1..Len(obj.items) |->
                Entry(SortedItems(obj.items)[i].key,
                      sort_object_lists_as_they_are(SortedItems(obj.items)[i].value))]]
    ELSE obj

RECURSIVE sort_object(_)
\* lines 13-22
sort_object(obj) ==
    IF obj.t = "list"
    THEN [obj EXCEPT !.items = [i \in 1..Len(obj.items) |-> sort_object(obj.items[i])]]
    ELSE IF obj.t = "dict"
    THEN [obj EXCEPT !.items =
            [i \in 1..Len(obj.items) |->
                Entry(SortedItems(obj.items)[i].key,
                      sort_object(SortedItems(obj.items)[i].value))]]
    ELSE obj

\* lines 27-34: NaN and the infinities become None
convert_special_values(obj) == IF obj.t = "nan" THEN CNone ELSE obj

RECURSIVE process_data(_)
\* lines 36-42
process_data(obj) ==
    IF obj.t = "dict"
    THEN [obj EXCEPT !.items =
            [i \in 1..Len(obj.items) |->
                Entry(obj.items[i].key, process_data(obj.items[i].value))]]
    ELSE IF obj.t = "list"
    THEN [obj EXCEPT !.items = [i \in 1..Len(obj.items) |-> process_data(obj.items[i])]]
    ELSE convert_special_values(obj)

RECURSIVE dumps_compact(_)
\* json.dumps(obj, separators=(",", ":"), ensure_ascii=False)
dumps_compact(obj) ==
    CASE obj.t = "dict" ->
           <<"{">> \o Join(<<",">>,
                           [i \in 1..Len(obj.items) |->
                               <<"\"">> \o obj.items[i].key \o <<"\"", ":">>
                                  \o dumps_compact(obj.items[i].value)])
                   \o <<"}">>
      [] obj.t = "list" ->
           <<"[">> \o Join(<<",">>,
                           [i \in 1..Len(obj.items) |-> dumps_compact(obj.items[i])])
                   \o <<"]">>
      [] obj.t = "str"  -> <<"\"">> \o obj.s \o <<"\"">>
      [] obj.t = "int"  -> <<ToString(obj.n)>>
      [] obj.t = "nan"  -> <<"NaN">>
      [] obj.t = "none" -> <<"null">>

\* lines 25-46
to_deterministic_json(data) == dumps_compact(process_data(sort_object(data)))

\* hashlib.sha256(...).hexdigest(): a function of the bytes hashed
sha256_hexdigest(text) == <<"sha256(">> \o text \o <<")">>

\* lines 49-52
get_compose_hash(app_compose_data) ==
    sha256_hexdigest(to_deterministic_json(app_compose_data))

RECURSIVE SameValue(_, _)
\* a == b as Python compares them: dicts by their entries whatever the order,
\* lists element by element
SameValue(a, b) ==
    /\ a.t = b.t
    /\ a.t # "nan"
    /\ a.s = b.s
    /\ a.n = b.n
    /\ Len(a.items) = Len(b.items)
    /\ a.t = "list" => \A i \in 1..Len(a.items) : SameValue(a.items[i], b.items[i])
    /\ a.t = "dict" =>
          \A i \in 1..Len(a.items) :
              \E j \in 1..Len(b.items) :
                  /\ a.items[i].key = b.items[j].key
                  /\ SameValue(a.items[i].value, b.items[j].value)

\* The inner mapping of the configurations below, in its two key orders
MetaBA == CDict(<<Entry(<<"b">>, CStr(<<"x">>)), Entry(<<"a">>, CInt(1))>>)

MetaAB == CDict(<<Entry(<<"a">>, CInt(1)), Entry(<<"b">>, CStr(<<"x">>))>>)

\* Configurations: the same contents in other key orders at the top, inside
\* a mapping and inside a list, and contents that differ
Configs ==
    { CDict(<<>>),
      CDict(<<Entry(<<"k">>, CStr(<<"n">>)), Entry(<<"_", "a">>, MetaBA)>>),
      CDict(<<Entry(<<"_", "a">>, MetaAB), Entry(<<"k">>, CStr(<<"n">>))>>),
      CDict(<<Entry(<<"k">>, CStr(<<"n">>)), Entry(<<"_", "a">>, MetaAB)>>),
      CDict(<<Entry(<<"a", "b">>, CList(<<MetaBA, CInt(2)>>)), Entry(<<"a">>, CNone)>>),
      CDict(<<Entry(<<"a">>, CNone), Entry(<<"a", "b">>, CList(<<MetaAB, CInt(2)>>))>>),
      CDict(<<Entry(<<"a">>, CNone), Entry(<<"a", "b">>, CList(<<CInt(2), MetaAB>>))>>),
      CDict(<<Entry(<<"a", "b">>, CList(<<CList(<<MetaBA>>)>>)), Entry(<<"a">>, CInt(1))>>),
      CDict(<<Entry(<<"a">>, CInt(1)), Entry(<<"a", "b">>, CList(<<CList(<<MetaAB>>)>>))>>),
      CDict(<<Entry(<<"b">>, CNaN), Entry(<<"a">>, CInt(1))>>),
      CDict(<<Entry(<<"a">>, CInt(1)), Entry(<<"b">>, CNone)>>),
      CDict(<<Entry(<<"b">>, CInt(1)), Entry(<<"a">>, CInt(1))>>) }

NoText == <<>>

\* Two configurations are at hand, nothing computed yet
InitHash ==
    /\ IpcOff
    /\ BapOff
    /\ rest = <<>>
    /\ \E a \in Configs, b \in Configs :
          compose = [phase |-> "idle", a |-> a, b |-> b,
                     sorted_a |-> CNone, resorted_a |-> CNone,
                     json_a |-> NoText, json_b |-> NoText,
                     hash_a |-> NoText, hash_b |-> NoText]

\* Both configurations are canonicalized and hashed
Hash ==
    /\ compose.phase = "idle"
    /\ compose' = [compose EXCEPT
                     !.phase = "hashed",
                     !.sorted_a = sort_object(compose.a),
                     !.resorted_a = sort_object(sort_object(compose.a)),
                     !.json_a = to_deterministic_json(compose.a),
                     !.json_b = to_deterministic_json(compose.b),
                     !.hash_a = get_compose_hash(compose.a),
                     !.hash_b = get_compose_hash(compose.b)]
    /\ UNCHANGED <<rest>>
    /\ UNCHANGED ipcVars
    /\ UNCHANGED bapVars

NextHash == Hash

SpecHash == InitHash /\ [][NextHash]_vars

RECURSIVE ListsInPlace(_, _)
\* Every list of x has, in y, its elements in the same places
ListsInPlace(x, y) ==
    /\ x.t = y.t
    /\ Len(x.items) = Len(y.items)
    /\ x.t = "list" =>
          \A i \in 1..Len(x.items) :
              /\ SameValue(x.items[i], y.items[i]) \/ x.items[i].t = "nan"
              /\ ListsInPlace(x.items[i], y.items[i])
    /\ x.t = "dict" =>
          \A i \in 1..Len(x.items) :
              \E j \in 1..Len(y.items) :
                  /\ x.items[i].key = y.items[j].key
                  /\ ListsInPlace(x.items[i].value, y.items[j].value)

(* C20.  The hash depends on the content of the configuration only: two     *)
(* nested mappings that are equal as mappings, whatever the order of their  *)
(* keys at any depth, inside lists too, have the same deterministic JSON    *)
(* and the same hash; sort_object is idempotent and keeps the order of list *)
(* elements.                                                                *)
C20_KeyOrderIrrelevant ==
    compose # <<>> /\ compose.phase = "hashed" =>
        /\ SameValue(compose.a, compose.b) =>
              /\ compose.json_a = compose.json_b
              /\ compose.hash_a = compose.hash_b
        /\ compose.resorted_a = compose.sorted_a
        /\ ListsInPlace(compose.a, compose.sorted_a)

\* Two configurations with the same content, their keys in another order at
\* the top and inside a list, gave one JSON text
C20_Witness ==
    /\ compose # <<>>
    /\ compose.phase = "hashed"
    /\ compose.a # compose.b
    /\ SameValue(compose.a, compose.b)
    /\ compose.hash_a = compose.hash_b
    /\ compose.json_a =
          <<"{", "\"", "a", "\"", ":", "null", ",", "\"", "a", "b", "\"", ":",
            "[", "{", "\"", "a", "\"", ":", "1", ",", "\"", "b", "\"", ":", "\"", "x", "\"",
            "}", ",", "2", "]", "}">>

=============================================================================
